---- MODULE Spec2Model ----
(***************************************************************************)
(* Model of src/wrapping/unwrap_with_template.c: the wrap/unwrap           *)
(* demonstration run against a PKCS#11 module.  The program is sequential; *)
(* pc is its position.  Every call that crosses into the module (and every *)
(* malloc/free, and every return of the three functions of interest) is    *)
(* appended to the history variable calls.  The module is an opaque        *)
(* service: each of its calls nondeterministically succeeds or fails.      *)
(***************************************************************************)
EXTENDS Integers, Sequences, FiniteSets, TLC

\* ------------------------------------------------------------- bounds
\* The label matches 0..MaxMatches objects of the module.
MaxMatches == 3
\* The module reports a wrapped-key size in 1..MaxWrappedLen.
MaxWrappedLen == 2

\* ---------------------------------------------------------- constants
CK_INVALID_HANDLE == 0
NULL == "NULL"
true_val == "CK_TRUE"
false_val == "CK_FALSE"

CKR_OK == "CKR_OK"
CKR_GENERAL_ERROR == "CKR_GENERAL_ERROR"
CKR_ARGUMENTS_BAD == "CKR_ARGUMENTS_BAD"
CKR_TEMPLATE_INCONSISTENT == "CKR_TEMPLATE_INCONSISTENT"
CKR_OBJECT_HANDLE_INVALID == "CKR_OBJECT_HANDLE_INVALID"
CKR_DEVICE_ERROR == "CKR_DEVICE_ERROR"
CKR_FUNCTION_FAILED == "CKR_FUNCTION_FAILED"

EXIT_SUCCESS == "EXIT_SUCCESS"
EXIT_FAILURE == "EXIT_FAILURE"

\* enum TEMPLATE_TYPE
VALID == "VALID"
INCONSISTENT == "INCONSISTENT"
INCOMPLETE == "INCOMPLETE"

VARIABLES
    pc,                          \* position of the program
    rv,                          \* rv of aes_wrap_unwrap_with_trusted / main
    rc,                          \* exit status of main
    hObject,                     \* find_wrapping_key_with_label's output pointer
    caller,                      \* who called find_wrapping_key_with_label
    found,                       \* find_wrapping_key_with_label's found
    wrapping_key,
    cka_trusted_val,
    rsa_public_key,
    rsa_private_key,
    wrapped_len,
    wrapped_key,                 \* NULL or "buf"
    unwrapped_handle,
    invalid_unwrapped_handle,
    incomplete_unwrapped_handle,
    val,                         \* aes_template_unwrap's val
    unwrap_rv,                   \* aes_template_unwrap's rv
    \* the module and the heap
    matches,                     \* how many objects carry the label: handles 1..matches
    peekOnNull,                  \* C_FindObjects with a null destination leaves the cursor
    ptrSize,                     \* sizeof(void *) of the build
    objAttrs,                    \* live objects of the module, with their attributes
    nextHandle,
    cursor,                      \* matches already handed out by the active search
    searchOpen,
    heap,                        \* "none", "live" or "freed": the wrapped-key buffer
    \* history
    calls

progVars == <<hObject, caller, found, wrapping_key, cka_trusted_val, rsa_public_key,
              rsa_private_key, wrapped_len, wrapped_key, unwrapped_handle,
              invalid_unwrapped_handle, incomplete_unwrapped_handle, val,
              unwrap_rv>>
envVars == <<matches, peekOnNull, ptrSize, objAttrs, nextHandle, cursor, searchOpen, heap>>
vars == <<pc, rv, rc, progVars, envVars, calls>>

\* ------------------------------------------------------------ helpers
Min(a, b) == IF a < b THEN a ELSE b

\* One entry of the history: a call with the object handle it was given, the
\* status it returned and its other arguments and results.
Call(op, role, h, st, args) ==
    [op |-> op, role |-> role, h |-> h, st |-> st, args |-> args]

\* The return of one of the program's functions.
Ret(fn, st) == Call("return", fn, CK_INVALID_HANDLE, st, <<>>)

\* ------------------------------------------------------------- module
\* Statuses any module call may return.
ModuleStatuses == {CKR_OK, CKR_DEVICE_ERROR, CKR_FUNCTION_FAILED}

\* Statuses of a call on object h: a handle that names no object is refused.
HandleStatuses(h) ==
    IF h \in DOMAIN objAttrs THEN ModuleStatuses ELSE {CKR_OBJECT_HANDLE_INVALID}

\* Statuses of C_UnwrapKey: the module may reject the template.
UnwrapStatuses == ModuleStatuses \cup {CKR_TEMPLATE_INCONSISTENT}

\* How many matches C_FindObjects reports when asked for at most max.
Available(max) == Min(max, matches - cursor)

\* The module's objects with object h added / removed.
WithObject(h, attrs) == [x \in DOMAIN objAttrs \cup {h} |->
                            IF x = h THEN attrs ELSE objAttrs[x]]
WithoutObject(h) == [x \in DOMAIN objAttrs \ {h} |-> objAttrs[x]]

\* ------------------------------------------------ aes_unwrap_key's templates
Attr(type, value) == [type |-> type, value |-> value]

Template(template_type) ==
    CASE template_type = VALID ->
           <<Attr("CKA_CLASS", "CKO_PRIVATE_KEY"), Attr("CKA_KEY_TYPE", "CKK_RSA"),
             Attr("CKA_TOKEN", false_val), Attr("CKA_EXTRACTABLE", true_val)>>
      [] template_type = INCONSISTENT ->
           <<Attr("CKA_CLASS", "CKO_PRIVATE_KEY"), Attr("CKA_KEY_TYPE", "CKK_RSA"),
             Attr("CKA_TOKEN", false_val), Attr("CKA_EXTRACTABLE", false_val)>>
      [] template_type = INCOMPLETE ->
           <<Attr("CKA_CLASS", "CKO_PRIVATE_KEY"), Attr("CKA_KEY_TYPE", "CKK_RSA"),
             Attr("CKA_TOKEN", false_val)>>

\* A variant of TemplateCount that passes 4 for every template.
TemplateCount_AlwaysFour(template_type) ==
    CASE template_type = VALID -> 4
      [] template_type = INCONSISTENT -> 4
      [] template_type = INCOMPLETE -> 4

TemplateCount(template_type) ==
    CASE template_type = VALID -> 4
      [] template_type = INCONSISTENT -> 4
      [] template_type = INCOMPLETE -> 3

\* The extractable attribute the module gives an object unwrapped under
\* template t: the template's, or the module's default d when it has none.
ExtractableOf(t, d) ==
    IF \E i \in 1..Len(t) : t[i].type = "CKA_EXTRACTABLE"
    THEN (CHOOSE a \in {t[i] : i \in 1..Len(t)} : a.type = "CKA_EXTRACTABLE").value
    ELSE d

\* sizeof(void *): 4 on a 32-bit build, 8 on a 64-bit one.
PointerSizes == {4, 8}

\* sizeof(CK_BBOOL): the destination of both attribute reads is one byte.
SizeofCkBbool == 1

\* ------------------------------------------------------------- Init
Init ==
    /\ pc = "main"
    /\ rv = CKR_OK
    /\ rc = EXIT_FAILURE
    /\ hObject = "&wrapping_key"
    /\ caller = "aes_wrap_unwrap_with_trusted"
    /\ found = 0
    /\ wrapping_key = CK_INVALID_HANDLE
    /\ cka_trusted_val = false_val
    /\ rsa_public_key = CK_INVALID_HANDLE
    /\ rsa_private_key = CK_INVALID_HANDLE
    /\ wrapped_len = 0
    /\ wrapped_key = NULL
    /\ unwrapped_handle = CK_INVALID_HANDLE
    /\ invalid_unwrapped_handle = CK_INVALID_HANDLE
    /\ incomplete_unwrapped_handle = CK_INVALID_HANDLE
    /\ val = false_val
    /\ unwrap_rv = CKR_OK
    /\ matches \in 0..MaxMatches
    /\ peekOnNull \in BOOLEAN
    /\ ptrSize \in PointerSizes
    /\ objAttrs \in [1..matches ->
                       {[trusted |-> t, extractable |-> false_val] :
                           t \in {true_val, false_val}}]
    /\ nextHandle = matches + 1
    /\ cursor = 0
    /\ searchOpen = FALSE
    /\ heap = "none"
    /\ calls = <<>>

\* ------------------------------------------------------------- main
\* main, lines 402-420: argument parsing, library initialisation and the
\* session are external; any of them failing ends the process.
MainStart ==
    /\ pc = "main"
    /\ \E setup_ok \in BOOLEAN :
         IF setup_ok
         THEN pc' = "find_init" /\ UNCHANGED rc
         ELSE pc' = "exited" /\ rc' = EXIT_FAILURE
    /\ UNCHANGED <<rv, progVars, envVars, calls>>

\* --------------------------------------- find_wrapping_key_with_label
\* A variant of IsAmbiguous that lets two matches through.
IsAmbiguous_MoreThanTwo(n) == n > 2

\* Lines 104-108: more than one object carries the label.
IsAmbiguous(n) == n > 1

\* Line 126: what the function returns when the search found nothing: rv,
\* the status C_FindObjectsFinal has just returned.
NotFoundStatus(final_rv) == final_rv

\* The C_FindObjectsFinal call.
FinalCall(st) == Call("C_FindObjectsFinal", "final", CK_INVALID_HANDLE, st, <<>>)

\* The function returns r to aes_wrap_unwrap_with_trusted after the calls evs
\* (lines 324-328): a status other than CKR_OK is returned at once, with no
\* cleanup.  Called on its own (caller = "direct") it just returns.
FindReturn(r, evs) ==
    /\ rv' = r
    /\ IF caller = "direct"
       THEN /\ pc' = "find_returned"
            /\ calls' = calls \o evs \o <<Ret("find_wrapping_key_with_label", r)>>
       ELSE
       IF CKR_OK # r
       THEN /\ pc' = "returned"
            /\ calls' = calls \o evs
                          \o <<Ret("find_wrapping_key_with_label", r),
                               Ret("aes_wrap_unwrap_with_trusted", r)>>
       ELSE /\ pc' = "validate_trust"
            /\ calls' = calls \o evs \o <<Ret("find_wrapping_key_with_label", r)>>

\* A variant of FindInit without the check of the output pointer.
FindInit_NoNullCheck ==
    /\ pc = "find_init"
    /\ \E st \in ModuleStatuses :
         LET ev == Call("C_FindObjectsInit", "init", CK_INVALID_HANDLE, st,
                        [template |-> <<"CKA_LABEL">>, ulCount |-> 1])
         IN  IF CKR_OK # st
             THEN /\ FindReturn(st, <<ev>>)
                  /\ UNCHANGED <<searchOpen, cursor>>
             ELSE /\ calls' = Append(calls, ev)
                  /\ searchOpen' = TRUE
                  /\ cursor' = 0
                  /\ pc' = "find_count"
                  /\ UNCHANGED rv
    /\ UNCHANGED <<rc, progVars, matches, peekOnNull, ptrSize, objAttrs, nextHandle, heap>>

\* Lines 82-94: the argument check and C_FindObjectsInit.
FindInit ==
    /\ pc = "find_init"
    /\ IF hObject = NULL
       THEN /\ FindReturn(CKR_ARGUMENTS_BAD, <<>>)
            /\ UNCHANGED <<searchOpen, cursor>>
       ELSE \E st \in ModuleStatuses :
              LET ev == Call("C_FindObjectsInit", "init", CK_INVALID_HANDLE, st,
                             [template |-> <<"CKA_LABEL">>, ulCount |-> 1])
              IN  IF CKR_OK # st
                  THEN /\ FindReturn(st, <<ev>>)
                       /\ UNCHANGED <<searchOpen, cursor>>
                  ELSE /\ calls' = Append(calls, ev)
                       /\ searchOpen' = TRUE
                       /\ cursor' = 0
                       /\ pc' = "find_count"
                       /\ UNCHANGED rv
    /\ UNCHANGED <<rc, progVars, matches, peekOnNull, ptrSize, objAttrs, nextHandle, heap>>

\* Lines 96-108: C_FindObjects(hSession, NULL, 2, &found) and the uniqueness
\* check.  What a module does with the null destination is its own business:
\* it fails, or it counts the matches and moves its cursor past them, or it
\* counts them and leaves the cursor (peekOnNull).
FindCount ==
    /\ pc = "find_count"
    /\ \E st \in ModuleStatuses, fst \in ModuleStatuses :
         LET n  == IF st = CKR_OK THEN Available(2) ELSE 0
             ev == Call("C_FindObjects", "count", CK_INVALID_HANDLE, st,
                        [phObject |-> NULL, ulMaxObjectCount |-> 2, found |-> n])
         IN  IF CKR_OK # st
             THEN /\ FindReturn(st, <<ev, FinalCall(fst)>>)
                  /\ searchOpen' = (fst # CKR_OK)
                  /\ UNCHANGED <<cursor, found>>
             ELSE /\ cursor' = IF peekOnNull THEN cursor ELSE cursor + n
                  /\ IF IsAmbiguous(n)
                     THEN /\ FindReturn(CKR_GENERAL_ERROR, <<ev>>)
                          /\ found' = n
                          /\ UNCHANGED searchOpen
                     ELSE /\ calls' = Append(calls, ev)
                          /\ found' = 0
                          /\ pc' = "find_fetch"
                          /\ UNCHANGED <<rv, searchOpen>>
    /\ UNCHANGED <<rc, hObject, caller, wrapping_key, cka_trusted_val, rsa_public_key,
                   rsa_private_key, wrapped_len, wrapped_key, unwrapped_handle,
                   invalid_unwrapped_handle, incomplete_unwrapped_handle, val,
                   unwrap_rv, matches, peekOnNull, ptrSize, objAttrs, nextHandle, heap>>

\* Lines 110-117: C_FindObjects(hSession, hObject, 1, &found).  The objects
\* that carry the label are the handles 1..matches, handed out in order.
FindFetch ==
    /\ pc = "find_fetch"
    /\ \E st \in ModuleStatuses, fst \in ModuleStatuses :
         LET n  == IF st = CKR_OK THEN Available(1) ELSE 0
             ev == Call("C_FindObjects", "fetch", CK_INVALID_HANDLE, st,
                        [phObject |-> hObject, ulMaxObjectCount |-> 1, found |-> n])
         IN  IF CKR_OK # st
             THEN /\ FindReturn(st, <<ev, FinalCall(fst)>>)
                  /\ searchOpen' = (fst # CKR_OK)
                  /\ UNCHANGED <<cursor, found, wrapping_key>>
             ELSE /\ calls' = Append(calls, ev)
                  /\ wrapping_key' = IF n = 1 THEN cursor + 1 ELSE wrapping_key
                  /\ cursor' = cursor + n
                  /\ found' = n
                  /\ pc' = "find_final"
                  /\ UNCHANGED <<rv, searchOpen>>
    /\ UNCHANGED <<rc, hObject, caller, cka_trusted_val, rsa_public_key,
                   rsa_private_key, wrapped_len, wrapped_key, unwrapped_handle,
                   invalid_unwrapped_handle, incomplete_unwrapped_handle, val,
                   unwrap_rv, matches, peekOnNull, ptrSize, objAttrs, nextHandle, heap>>

\* Lines 118-129: C_FindObjectsFinal and the result.
FindFinal ==
    /\ pc = "find_final"
    /\ \E st \in ModuleStatuses :
         /\ searchOpen' = (st # CKR_OK)
         /\ IF CKR_OK # st
            THEN FindReturn(st, <<FinalCall(st)>>)
            ELSE IF 0 = found
                 THEN FindReturn(NotFoundStatus(st), <<FinalCall(st)>>)
                 ELSE FindReturn(CKR_OK, <<FinalCall(st)>>)
    /\ UNCHANGED <<rc, progVars, matches, peekOnNull, ptrSize, objAttrs, nextHandle,
                   cursor, heap>>

\* ---------------------------------------- aes_wrap_unwrap_with_trusted
\* A variant of TrustOk that accepts any wrapping key.
TrustOk_Any(v) == TRUE

\* Line 338: the wrapping key is acceptable when its CKA_TRUSTED reads true.
TrustOk(v) == v = true_val

\* get_attribute, lines 232-246: one C_GetAttributeValue for one attribute.
\* Line 241 declares sizeof(attr_value), the size of the pointer, as the
\* length of the value buffer; both callers pass the address of a CK_BBOOL.
GetAttributeCall(role, h, type, st, v) ==
    Call("C_GetAttributeValue", role, h, st,
         [type |-> type, value |-> v, ulValueLen |-> ptrSize,
          dest_size |-> SizeofCkBbool])

\* Lines 330-346: read CKA_TRUSTED of the wrapping key and insist on true.
ValidateTrust ==
    /\ pc = "validate_trust"
    /\ \E st \in HandleStatuses(wrapping_key) :
         LET v == IF st = CKR_OK THEN objAttrs[wrapping_key].trusted ELSE false_val
         IN  /\ calls' = Append(calls,
                    GetAttributeCall("trusted", wrapping_key, "CKA_TRUSTED", st, v))
             /\ cka_trusted_val' = v
             /\ IF st # CKR_OK
                THEN rv' = st /\ pc' = "done"
                ELSE IF ~TrustOk(v)
                     THEN rv' = CKR_GENERAL_ERROR /\ pc' = "done"
                     ELSE rv' = st /\ pc' = "generate"
    /\ UNCHANGED <<rc, hObject, caller, found, wrapping_key, rsa_public_key,
                   rsa_private_key, wrapped_len, wrapped_key, unwrapped_handle,
                   invalid_unwrapped_handle, incomplete_unwrapped_handle, val,
                   unwrap_rv, envVars>>

\* Lines 348-353 and generate_rsa_keypair, lines 39-68: the module makes both
\* keys or neither.
GenerateKeyPair ==
    /\ pc = "generate"
    /\ \E st \in ModuleStatuses :
         LET pub  == IF st = CKR_OK THEN nextHandle ELSE rsa_public_key
             priv == IF st = CKR_OK THEN nextHandle + 1 ELSE rsa_private_key
         IN  /\ calls' = Append(calls,
                    Call("C_GenerateKeyPair", "rsa", CK_INVALID_HANDLE, st,
                         [public_key |-> pub, private_key |-> priv]))
             /\ rv' = st
             /\ rsa_public_key' = pub
             /\ rsa_private_key' = priv
             /\ IF st # CKR_OK
                THEN pc' = "done" /\ UNCHANGED <<objAttrs, nextHandle>>
                ELSE /\ pc' = "size_wrap"
                     /\ nextHandle' = nextHandle + 2
                     /\ objAttrs' = [x \in DOMAIN objAttrs \cup {pub, priv} |->
                           IF x = pub
                           THEN [trusted |-> false_val, extractable |-> false_val]
                           ELSE IF x = priv
                           THEN [trusted |-> false_val, extractable |-> true_val]
                           ELSE objAttrs[x]]
    /\ UNCHANGED <<rc, hObject, caller, found, wrapping_key, cka_trusted_val,
                   wrapped_len, wrapped_key, unwrapped_handle,
                   invalid_unwrapped_handle, incomplete_unwrapped_handle, val,
                   unwrap_rv, matches, peekOnNull, ptrSize, cursor, searchOpen, heap>>

\* aes_wrap_key, lines 142-158.
WrapCall(role, st, len_in, len_out) ==
    Call("C_WrapKey", role, wrapping_key, st,
         [key |-> rsa_private_key, pWrappedKey |-> wrapped_key,
          len_in |-> len_in, len_out |-> len_out])

\* Lines 357-363: the size query, with a null destination and length 0.
SizeWrap ==
    /\ pc = "size_wrap"
    /\ \E st \in ModuleStatuses, n \in 1..MaxWrappedLen :
         LET len == IF st = CKR_OK THEN n ELSE 0
         IN  /\ calls' = Append(calls, WrapCall("size", st, 0, len))
             /\ rv' = st
             /\ wrapped_len' = len
             /\ pc' = IF st # CKR_OK THEN "done" ELSE "alloc"
    /\ UNCHANGED <<rc, hObject, caller, found, wrapping_key, cka_trusted_val,
                   rsa_public_key, rsa_private_key, wrapped_key,
                   unwrapped_handle, invalid_unwrapped_handle,
                   incomplete_unwrapped_handle, val, unwrap_rv, envVars>>

\* Lines 365-369: malloc(wrapped_len); a null result goes to done with rv
\* left as it is.
AllocWrapped ==
    /\ pc = "alloc"
    /\ \E p \in {NULL, "buf"} :
         /\ calls' = Append(calls,
                Call("malloc", "wrapped_key", CK_INVALID_HANDLE, p,
                     [size |-> wrapped_len]))
         /\ wrapped_key' = p
         /\ IF NULL = p
            THEN pc' = "done" /\ UNCHANGED heap
            ELSE pc' = "fill_wrap" /\ heap' = "live"
    /\ UNCHANGED <<rv, rc, hObject, caller, found, wrapping_key, cka_trusted_val,
                   rsa_public_key, rsa_private_key, wrapped_len,
                   unwrapped_handle, invalid_unwrapped_handle,
                   incomplete_unwrapped_handle, val, unwrap_rv, matches,
                   peekOnNull, ptrSize, objAttrs, nextHandle, cursor, searchOpen>>

\* A variant of FillWrap in which the length the module reports is not kept.
FillWrap_KeepsQueriedLength ==
    /\ pc = "fill_wrap"
    /\ \E st \in ModuleStatuses, n \in 1..wrapped_len :
         LET len == IF st = CKR_OK THEN n ELSE wrapped_len
         IN  /\ calls' = Append(calls, WrapCall("fill", st, wrapped_len, len))
             /\ rv' = st
             /\ pc' = IF st # CKR_OK THEN "done" ELSE "unwrap_valid"
    /\ UNCHANGED <<rc, hObject, caller, found, wrapping_key, cka_trusted_val,
                   rsa_public_key, rsa_private_key, wrapped_len, wrapped_key,
                   unwrapped_handle, invalid_unwrapped_handle,
                   incomplete_unwrapped_handle, val, unwrap_rv, envVars>>

\* Lines 371-376: the fill call; the module writes the length it used.
FillWrap ==
    /\ pc = "fill_wrap"
    /\ \E st \in ModuleStatuses, n \in 1..wrapped_len :
         LET len == IF st = CKR_OK THEN n ELSE wrapped_len
         IN  /\ calls' = Append(calls, WrapCall("fill", st, wrapped_len, len))
             /\ rv' = st
             /\ wrapped_len' = len
             /\ pc' = IF st # CKR_OK THEN "done" ELSE "unwrap_valid"
    /\ UNCHANGED <<rc, hObject, caller, found, wrapping_key, cka_trusted_val,
                   rsa_public_key, rsa_private_key, wrapped_key,
                   unwrapped_handle, invalid_unwrapped_handle,
                   incomplete_unwrapped_handle, val, unwrap_rv, envVars>>

\* ------------------------------------------------- aes_template_unwrap
\* aes_unwrap_key, lines 170-222: one C_UnwrapKey with the template of
\* template_type; out is the handle the module stored, if any.
UnwrapCall(template_type, st, out) ==
    Call("C_UnwrapKey", template_type, wrapping_key, st,
         [pWrappedKey |-> wrapped_key, ulWrappedKeyLen |-> wrapped_len,
          pTemplate |-> Template(template_type),
          ulAttributeCount |-> TemplateCount(template_type),
          phKey |-> out])

\* The attributes of an object the module unwrapped under template_type.
UnwrappedAttrs(template_type, d) ==
    [trusted |-> false_val, extractable |-> ExtractableOf(Template(template_type), d)]

\* A variant of TemplateUnwrapReturn in which the caller replaces any error
\* by CKR_GENERAL_ERROR.
TemplateUnwrapReturn_Translates(r, evs) ==
    /\ calls' = calls \o evs \o <<Ret("aes_template_unwrap", r)>>
    /\ rv' = IF CKR_OK # r THEN CKR_GENERAL_ERROR ELSE r
    /\ pc' = "done"

\* aes_template_unwrap returns r after the calls evs; lines 378-383: the
\* caller stores it in rv and reaches done either way.
TemplateUnwrapReturn(r, evs) ==
    /\ calls' = calls \o evs \o <<Ret("aes_template_unwrap", r)>>
    /\ rv' = r
    /\ pc' = "done"

\* Lines 265-272: the unwrap with the valid template.
UnwrapValid ==
    /\ pc = "unwrap_valid"
    /\ \E st \in UnwrapStatuses :
         /\ unwrap_rv' = st
         /\ IF st # CKR_OK
            THEN /\ TemplateUnwrapReturn(st, <<UnwrapCall(VALID, st, CK_INVALID_HANDLE)>>)
                 /\ UNCHANGED <<unwrapped_handle, objAttrs, nextHandle>>
            ELSE /\ calls' = Append(calls, UnwrapCall(VALID, st, nextHandle))
                 /\ unwrapped_handle' = nextHandle
                 /\ objAttrs' = WithObject(nextHandle, UnwrappedAttrs(VALID, true_val))
                 /\ nextHandle' = nextHandle + 1
                 /\ pc' = "check_extractable_valid"
                 /\ UNCHANGED rv
    /\ UNCHANGED <<rc, hObject, caller, found, wrapping_key, cka_trusted_val,
                   rsa_public_key, rsa_private_key, wrapped_len, wrapped_key,
                   invalid_unwrapped_handle, incomplete_unwrapped_handle, val,
                   matches, peekOnNull, ptrSize, cursor, searchOpen, heap>>

\* Lines 273-280: read CKA_EXTRACTABLE of the object just unwrapped.
CheckExtractableValid ==
    /\ pc = "check_extractable_valid"
    /\ \E st \in HandleStatuses(unwrapped_handle) :
         LET v  == IF st = CKR_OK THEN objAttrs[unwrapped_handle].extractable
                   ELSE false_val
             ev == GetAttributeCall("extractable_valid", unwrapped_handle,
                                    "CKA_EXTRACTABLE", st, v)
         IN  /\ val' = v
             /\ unwrap_rv' = st
             /\ IF st # CKR_OK
                THEN TemplateUnwrapReturn(st, <<ev>>)
                ELSE /\ calls' = Append(calls, ev)
                     /\ pc' = "unwrap_inconsistent"
                     /\ UNCHANGED rv
    /\ UNCHANGED <<rc, hObject, caller, found, wrapping_key, cka_trusted_val,
                   rsa_public_key, rsa_private_key, wrapped_len, wrapped_key,
                   unwrapped_handle, invalid_unwrapped_handle,
                   incomplete_unwrapped_handle, envVars>>

\* A variant of UnwrapInconsistent that returns a status other than
\* CKR_TEMPLATE_INCONSISTENT instead of only reporting it.
UnwrapInconsistent_ReturnsAnomaly ==
    /\ pc = "unwrap_inconsistent"
    /\ \E st \in UnwrapStatuses :
         LET out == IF st = CKR_OK THEN nextHandle ELSE CK_INVALID_HANDLE
         IN  /\ unwrap_rv' = st
             /\ invalid_unwrapped_handle' = out
             /\ IF st = CKR_OK
                THEN /\ objAttrs' = WithObject(nextHandle,
                                        UnwrappedAttrs(INCONSISTENT, false_val))
                     /\ nextHandle' = nextHandle + 1
                ELSE UNCHANGED <<objAttrs, nextHandle>>
             /\ IF st # CKR_TEMPLATE_INCONSISTENT
                THEN TemplateUnwrapReturn(st, <<UnwrapCall(INCONSISTENT, st, out)>>)
                ELSE /\ calls' = Append(calls, UnwrapCall(INCONSISTENT, st, out))
                     /\ pc' = "unwrap_incomplete"
                     /\ UNCHANGED rv
    /\ UNCHANGED <<rc, hObject, caller, found, wrapping_key, cka_trusted_val,
                   rsa_public_key, rsa_private_key, wrapped_len, wrapped_key,
                   unwrapped_handle, incomplete_unwrapped_handle, val,
                   matches, peekOnNull, ptrSize, cursor, searchOpen, heap>>

\* Lines 282-287: the unwrap with the inconsistent template.  Whatever status
\* comes back is printed, and the function goes on.
UnwrapInconsistent ==
    /\ pc = "unwrap_inconsistent"
    /\ \E st \in UnwrapStatuses :
         LET out == IF st = CKR_OK THEN nextHandle ELSE CK_INVALID_HANDLE
         IN  /\ unwrap_rv' = st
             /\ invalid_unwrapped_handle' = out
             /\ IF st = CKR_OK
                THEN /\ objAttrs' = WithObject(nextHandle,
                                        UnwrappedAttrs(INCONSISTENT, false_val))
                     /\ nextHandle' = nextHandle + 1
                ELSE UNCHANGED <<objAttrs, nextHandle>>
             /\ calls' = Append(calls, UnwrapCall(INCONSISTENT, st, out))
             /\ pc' = "unwrap_incomplete"
    /\ UNCHANGED <<rv, rc, hObject, caller, found, wrapping_key, cka_trusted_val,
                   rsa_public_key, rsa_private_key, wrapped_len, wrapped_key,
                   unwrapped_handle, incomplete_unwrapped_handle, val,
                   matches, peekOnNull, ptrSize, cursor, searchOpen, heap>>

\* Lines 289-295: the unwrap with the incomplete template; the module picks
\* the extractable attribute of the new object.
UnwrapIncomplete ==
    /\ pc = "unwrap_incomplete"
    /\ \E st \in UnwrapStatuses, d \in {true_val, false_val} :
         /\ unwrap_rv' = st
         /\ IF st # CKR_OK
            THEN /\ TemplateUnwrapReturn(st,
                        <<UnwrapCall(INCOMPLETE, st, CK_INVALID_HANDLE)>>)
                 /\ UNCHANGED <<incomplete_unwrapped_handle, objAttrs, nextHandle>>
            ELSE /\ calls' = Append(calls, UnwrapCall(INCOMPLETE, st, nextHandle))
                 /\ incomplete_unwrapped_handle' = nextHandle
                 /\ objAttrs' = WithObject(nextHandle, UnwrappedAttrs(INCOMPLETE, d))
                 /\ nextHandle' = nextHandle + 1
                 /\ pc' = "check_extractable_incomplete"
                 /\ UNCHANGED rv
    /\ UNCHANGED <<rc, hObject, caller, found, wrapping_key, cka_trusted_val,
                   rsa_public_key, rsa_private_key, wrapped_len, wrapped_key,
                   unwrapped_handle, invalid_unwrapped_handle, val,
                   matches, peekOnNull, ptrSize, cursor, searchOpen, heap>>

\* Line 298: the handle whose CKA_EXTRACTABLE is read after the incomplete
\* unwrap.
IncompleteCheckHandle == unwrapped_handle

\* Lines 296-304: read CKA_EXTRACTABLE and return.
CheckExtractableIncomplete ==
    /\ pc = "check_extractable_incomplete"
    /\ \E st \in HandleStatuses(IncompleteCheckHandle) :
         LET v  == IF st = CKR_OK THEN objAttrs[IncompleteCheckHandle].extractable
                   ELSE false_val
         IN  /\ val' = v
             /\ unwrap_rv' = st
             /\ TemplateUnwrapReturn(st,
                    <<GetAttributeCall("extractable_incomplete", IncompleteCheckHandle,
                                       "CKA_EXTRACTABLE", st, v)>>)
    /\ UNCHANGED <<rc, hObject, caller, found, wrapping_key, cka_trusted_val,
                   rsa_public_key, rsa_private_key, wrapped_len, wrapped_key,
                   unwrapped_handle, invalid_unwrapped_handle,
                   incomplete_unwrapped_handle, envVars>>

\* ------------------------------------------------------------ cleanup
\* A variant of NeedsFree that never releases the buffer.
NeedsFree_Never(p) == FALSE

\* Line 384: the buffer is released when the pointer is not null.
NeedsFree(p) == NULL # p

\* A variant of FreeWrapped after which the public key is not destroyed.
FreeWrapped_SkipsPublicDestroy ==
    /\ pc = "done"
    /\ IF NeedsFree(wrapped_key)
       THEN /\ calls' = Append(calls,
                   Call("free", "wrapped_key", CK_INVALID_HANDLE, "void",
                        [ptr |-> wrapped_key, heap |-> heap]))
            /\ heap' = "freed"
       ELSE UNCHANGED <<calls, heap>>
    /\ pc' = "destroy_private"
    /\ UNCHANGED <<rv, rc, progVars, matches, peekOnNull, ptrSize, objAttrs, nextHandle,
                   cursor, searchOpen>>

\* Lines 383-386: done.
FreeWrapped ==
    /\ pc = "done"
    /\ IF NeedsFree(wrapped_key)
       THEN /\ calls' = Append(calls,
                   Call("free", "wrapped_key", CK_INVALID_HANDLE, "void",
                        [ptr |-> wrapped_key, heap |-> heap]))
            /\ heap' = "freed"
       ELSE UNCHANGED <<calls, heap>>
    /\ pc' = "destroy_public"
    /\ UNCHANGED <<rv, rc, progVars, matches, peekOnNull, ptrSize, objAttrs, nextHandle,
                   cursor, searchOpen>>

\* C_DestroyObject on handle h.
DestroyCall(role, h, st) == Call("C_DestroyObject", role, h, st, <<>>)

\* A variant of DestroyPublic that gives up when the public key cannot be
\* destroyed.
DestroyPublic_StopsOnError ==
    /\ pc = "destroy_public"
    /\ \E st \in HandleStatuses(rsa_public_key) :
         /\ objAttrs' = IF st = CKR_OK THEN WithoutObject(rsa_public_key) ELSE objAttrs
         /\ IF CKR_OK # st
            THEN /\ calls' = calls \o <<DestroyCall("rsa_public_key", rsa_public_key, st),
                                        Ret("aes_wrap_unwrap_with_trusted", rv)>>
                 /\ pc' = "returned"
            ELSE /\ calls' = Append(calls,
                        DestroyCall("rsa_public_key", rsa_public_key, st))
                 /\ pc' = "destroy_private"
    /\ UNCHANGED <<rv, rc, progVars, matches, peekOnNull, ptrSize, nextHandle, cursor,
                   searchOpen, heap>>

\* Lines 388-392: destroy the public key; a failure is only reported.
DestroyPublic ==
    /\ pc = "destroy_public"
    /\ \E st \in HandleStatuses(rsa_public_key) :
         /\ calls' = Append(calls, DestroyCall("rsa_public_key", rsa_public_key, st))
         /\ objAttrs' = IF st = CKR_OK THEN WithoutObject(rsa_public_key) ELSE objAttrs
    /\ pc' = "destroy_private"
    /\ UNCHANGED <<rv, rc, progVars, matches, peekOnNull, ptrSize, nextHandle, cursor,
                   searchOpen, heap>>

\* A variant of DestroyPrivate that reports a failed destroy to the caller
\* when nothing else had failed.
DestroyPrivate_ReturnsDestroyError ==
    /\ pc = "destroy_private"
    /\ \E st \in HandleStatuses(rsa_private_key) :
         LET r == IF CKR_OK = rv THEN st ELSE rv
         IN  /\ calls' = calls \o <<DestroyCall("rsa_private_key", rsa_private_key, st),
                                    Ret("aes_wrap_unwrap_with_trusted", r)>>
             /\ rv' = r
             /\ objAttrs' = IF st = CKR_OK THEN WithoutObject(rsa_private_key)
                            ELSE objAttrs
    /\ pc' = "returned"
    /\ UNCHANGED <<rc, progVars, matches, peekOnNull, ptrSize, nextHandle, cursor,
                   searchOpen, heap>>

\* A variant of DestroyPrivate that destroys the wrapping key as well.
DestroyPrivate_AlsoWrappingKey ==
    /\ pc = "destroy_private"
    /\ \E st \in HandleStatuses(rsa_private_key), wst \in HandleStatuses(wrapping_key) :
         /\ calls' = calls \o <<DestroyCall("rsa_private_key", rsa_private_key, st),
                                DestroyCall("wrapping_key", wrapping_key, wst),
                                Ret("aes_wrap_unwrap_with_trusted", rv)>>
         /\ objAttrs' = [x \in DOMAIN objAttrs \
                             ((IF st = CKR_OK THEN {rsa_private_key} ELSE {}) \cup
                              (IF wst = CKR_OK THEN {wrapping_key} ELSE {}))
                         |-> objAttrs[x]]
    /\ pc' = "returned"
    /\ UNCHANGED <<rv, rc, progVars, matches, peekOnNull, ptrSize, nextHandle, cursor,
                   searchOpen, heap>>

\* Lines 394-399: destroy the private key and return rv.
DestroyPrivate ==
    /\ pc = "destroy_private"
    /\ \E st \in HandleStatuses(rsa_private_key) :
         /\ calls' = calls \o <<DestroyCall("rsa_private_key", rsa_private_key, st),
                                Ret("aes_wrap_unwrap_with_trusted", rv)>>
         /\ objAttrs' = IF st = CKR_OK THEN WithoutObject(rsa_private_key) ELSE objAttrs
    /\ pc' = "returned"
    /\ UNCHANGED <<rv, rc, progVars, matches, peekOnNull, ptrSize, nextHandle, cursor,
                   searchOpen, heap>>

\* main, lines 422-429: the exit status.
MainExit ==
    /\ pc = "returned"
    /\ rc' = IF CKR_OK # rv THEN EXIT_FAILURE ELSE EXIT_SUCCESS
    /\ pc' = "exited"
    /\ UNCHANGED <<rv, progVars, envVars, calls>>

Next ==
    \/ MainStart
    \/ FindInit
    \/ FindCount
    \/ FindFetch
    \/ FindFinal
    \/ ValidateTrust
    \/ GenerateKeyPair
    \/ SizeWrap
    \/ AllocWrapped
    \/ FillWrap
    \/ UnwrapValid
    \/ CheckExtractableValid
    \/ UnwrapInconsistent
    \/ UnwrapIncomplete
    \/ CheckExtractableIncomplete
    \/ FreeWrapped
    \/ DestroyPublic
    \/ DestroyPrivate
    \/ MainExit

Spec == Init /\ [][Next]_vars

\* find_wrapping_key_with_label on its own, lines 77-130: called with any
\* label and with an output pointer that may be null.
InitFind ==
    /\ pc = "find_init"
    /\ rv = CKR_OK
    /\ rc = EXIT_FAILURE
    /\ hObject \in {NULL, "&wrapping_key"}
    /\ caller = "direct"
    /\ found = 0
    /\ wrapping_key = CK_INVALID_HANDLE
    /\ cka_trusted_val = false_val
    /\ rsa_public_key = CK_INVALID_HANDLE
    /\ rsa_private_key = CK_INVALID_HANDLE
    /\ wrapped_len = 0
    /\ wrapped_key = NULL
    /\ unwrapped_handle = CK_INVALID_HANDLE
    /\ invalid_unwrapped_handle = CK_INVALID_HANDLE
    /\ incomplete_unwrapped_handle = CK_INVALID_HANDLE
    /\ val = false_val
    /\ unwrap_rv = CKR_OK
    /\ matches \in 0..MaxMatches
    /\ peekOnNull \in BOOLEAN
    /\ ptrSize \in PointerSizes
    /\ objAttrs \in [1..matches ->
                       {[trusted |-> t, extractable |-> false_val] :
                           t \in {true_val, false_val}}]
    /\ nextHandle = matches + 1
    /\ cursor = 0
    /\ searchOpen = FALSE
    /\ heap = "none"
    /\ calls = <<>>

NextFind ==
    \/ FindInit
    \/ FindCount
    \/ FindFetch
    \/ FindFinal

SpecFind == InitFind /\ [][NextFind]_vars

\* ============================================================ properties
\* Vocabulary over the history.
Idx == 1..Len(calls)
CallsOf(op) == {i \in Idx : calls[i].op = op}
CallsAt(op, role) == {i \in Idx : calls[i].op = op /\ calls[i].role = role}
Returns(fn) == CallsAt("return", fn)

FindReturned == Returns("find_wrapping_key_with_label") # {}
FindRv == calls[CHOOSE i \in Returns("find_wrapping_key_with_label") : TRUE].st
OrchReturned == Returns("aes_wrap_unwrap_with_trusted") # {}

\* The search handed a handle to the caller.
KeyFound == \E i \in CallsAt("C_FindObjects", "fetch") :
                calls[i].st = CKR_OK /\ calls[i].args.found = 1

\* The operations of the main sequence that act on keys.
KeyOps == {"C_GetAttributeValue", "C_GenerateKeyPair", "C_WrapKey", "C_UnwrapKey"}
SearchOps == {"C_FindObjectsInit", "C_FindObjects", "C_FindObjectsFinal"}

\* History entry i is a module call of the main sequence that returned an
\* error (the unwrap with the inconsistent template is not one of them).
ModuleCallFailed(i) ==
    /\ calls[i].op \in KeyOps \cup SearchOps
    /\ ~(calls[i].op = "C_UnwrapKey" /\ calls[i].role = INCONSISTENT)
    /\ calls[i].st # CKR_OK

\* History entry i is where a step of the main sequence failed: a module
\* call in error, a lookup that ended without a unique key, a wrapping key
\* whose trust flag is not true, a failed allocation.
StepFailed(i) ==
    \/ ModuleCallFailed(i)
    \/ /\ i \in Returns("find_wrapping_key_with_label")
       /\ (calls[i].st # CKR_OK \/ ~KeyFound)
    \/ /\ i \in CallsAt("C_GetAttributeValue", "trusted")
       /\ calls[i].args.value # true_val
    \/ /\ i \in CallsOf("malloc")
       /\ calls[i].st = NULL

FailedSteps == {i \in Idx : StepFailed(i)}
FirstFailed == CHOOSE i \in FailedSteps : \A j \in FailedSteps : i <= j

Destroys(role) == CallsAt("C_DestroyObject", role)

C2_ReturnsFirstError ==
    OrchReturned =>
        /\ (rv = CKR_OK <=> FailedSteps = {})
        /\ (FailedSteps # {} /\ ModuleCallFailed(FirstFailed)
               => rv = calls[FirstFailed].st)

\* ---------------------------------------------------------------- C3
\* C3: for a label that matches no object find_wrapping_key_with_label
\* returns a status other than CKR_OK, and it never returns CKR_OK without
\* having stored a found handle in its output.
C3_ZeroMatchesNotFound ==
    FindReturned =>
        /\ (matches = 0 => FindRv # CKR_OK)
        /\ (FindRv = CKR_OK => KeyFound /\ wrapping_key # CK_INVALID_HANDLE)

\* ---------------------------------------------------------------- C4
\* C4: when find_wrapping_key_with_label has returned, every successful
\* C_FindObjectsInit has been followed by exactly one C_FindObjectsFinal.
C4_SearchFinalizedOnce ==
    FindReturned =>
        \A i \in CallsOf("C_FindObjectsInit") :
            calls[i].st = CKR_OK =>
                Cardinality({j \in CallsOf("C_FindObjectsFinal") : j > i}) = 1

\* ---------------------------------------------------------------- C5
\* C5: for a label that matches more than one object, the lookup never
\* writes a handle to its output, it returns an error, and the orchestrator
\* issues no operation on any key.
C5_AmbiguousNeverAHandle ==
    matches > 1 =>
        /\ wrapping_key = CK_INVALID_HANDLE
        /\ ~KeyFound
        /\ (FindReturned => FindRv # CKR_OK /\ pc \in {"returned", "exited"})
        /\ \A i \in Idx : calls[i].op \notin KeyOps

\* C5 witness: the lookup saw two matches and returned CKR_GENERAL_ERROR.
C5_Witness ==
    /\ matches > 1
    /\ FindReturned
    /\ FindRv = CKR_GENERAL_ERROR
    /\ \E i \in CallsAt("C_FindObjects", "count") :
           calls[i].st = CKR_OK /\ calls[i].args.found = 2

\* ---------------------------------------------------------------- C6
\* C6: for a label that matches exactly one object, in a module whose cursor
\* moves past every match it has reported, and when no call of the search
\* failed, the lookup returns CKR_OK and its output holds that object's
\* handle.
C6_SingleMatchReturned ==
    (/\ FindReturned
     /\ matches = 1
     /\ ~peekOnNull
     /\ \A i \in Idx : calls[i].op \in SearchOps => calls[i].st = CKR_OK)
        => FindRv = CKR_OK /\ wrapping_key = 1

\* ---------------------------------------------------------------- C7
\* C7: once a step of the main sequence (the inconsistent unwrap aside) has
\* failed, no key operation (attribute query, generation, wrap, unwrap)
\* follows it.
C7_NothingAfterFailure ==
    \A i \in FailedSteps :
        \A j \in Idx : j > i => calls[j].op \notin KeyOps

\* ---------------------------------------------------------------- C8
\* C8: whatever the unwrap with the inconsistent template returns, the unwrap
\* with the incomplete template is the next call, and what aes_template_unwrap
\* returns (and the orchestrator after it) is the status of a later call,
\* never that of the inconsistent unwrap.
C8_InconsistentStatusDropped ==
    /\ \A i \in CallsAt("C_UnwrapKey", INCONSISTENT) :
           IF i = Len(calls)
           THEN pc = "unwrap_incomplete"
           ELSE calls[i + 1].op = "C_UnwrapKey" /\ calls[i + 1].role = INCOMPLETE
    /\ \A r \in Returns("aes_template_unwrap") :
           /\ r > 1
           /\ calls[r - 1].op \in KeyOps
           /\ ~(calls[r - 1].op = "C_UnwrapKey" /\ calls[r - 1].role = INCONSISTENT)
           /\ calls[r].st = calls[r - 1].st
           /\ (OrchReturned => rv = calls[r].st)

\* C8 witness: the inconsistent unwrap failed with an unexpected status, and
\* the run still finished with CKR_OK.
C8_Witness ==
    /\ OrchReturned
    /\ rv = CKR_OK
    /\ \E i \in CallsAt("C_UnwrapKey", INCONSISTENT) : calls[i].st = CKR_DEVICE_ERROR
    /\ CallsAt("C_UnwrapKey", INCOMPLETE) # {}

\* ---------------------------------------------------------------- C9
\* C9: the wrapped-key buffer is freed at most once, only after it was
\* allocated, nothing uses it after the free, and when the orchestrator has
\* returned it has been freed exactly when it had been allocated.
C9_BufferFreedOnce ==
    /\ Cardinality(CallsOf("free")) <= 1
    /\ \A f \in CallsOf("free") :
           /\ calls[f].args.heap = "live"
           /\ \E m \in CallsOf("malloc") : m < f /\ calls[m].st # NULL
           /\ \A j \in Idx : j > f => calls[j].op \notin {"C_WrapKey", "C_UnwrapKey", "free"}
    /\ OrchReturned =>
           /\ ((\E m \in CallsOf("malloc") : calls[m].st # NULL)
                  <=> Cardinality(CallsOf("free")) = 1)
           /\ heap \in {"none", "freed"}

\* C9 witness: a run that allocated the buffer, failed afterwards and
\* returned with the buffer freed.
C9_Witness ==
    /\ OrchReturned
    /\ rv # CKR_OK
    /\ heap = "freed"
    /\ Cardinality(CallsOf("free")) = 1

\* --------------------------------------------------------------- C10
\* C10: key-pair generation, wrap and unwrap happen only after the wrapping
\* key's CKA_TRUSTED was read and was true; a run whose trust read failed or
\* gave another value returns a status other than CKR_OK without any of them.
TrustReadTrue(i) ==
    /\ i \in CallsAt("C_GetAttributeValue", "trusted")
    /\ calls[i].st = CKR_OK
    /\ calls[i].args.value = true_val

C10_TrustedBeforeKeyUse ==
    /\ \A j \in Idx :
           calls[j].op \in {"C_GenerateKeyPair", "C_WrapKey", "C_UnwrapKey"} =>
               \E i \in Idx : i < j /\ TrustReadTrue(i)
    /\ \A i \in CallsAt("C_GetAttributeValue", "trusted") :
           ~TrustReadTrue(i) =>
               /\ \A j \in Idx :
                      calls[j].op \notin {"C_GenerateKeyPair", "C_WrapKey", "C_UnwrapKey"}
               /\ pc \in {"done", "destroy_public", "destroy_private",
                          "returned", "exited"}
               /\ rv # CKR_OK

\* C10 witness: the wrapping key was found, its CKA_TRUSTED was read as
\* false, and the run returned CKR_GENERAL_ERROR.
C10_Witness ==
    /\ OrchReturned
    /\ rv = CKR_GENERAL_ERROR
    /\ \E i \in CallsAt("C_GetAttributeValue", "trusted") :
           calls[i].st = CKR_OK /\ calls[i].args.value = false_val

\* --------------------------------------------------------------- C11
\* C11 as stated: whenever a module call of the main sequence (search
\* init/search/finalize, attribute query, generation, wrap, valid and
\* incomplete unwrap) returned a status s other than CKR_OK, the orchestrator
\* returns exactly s.
C11_EveryErrorReturned ==
    OrchReturned =>
        \A i \in Idx : ModuleCallFailed(i) => rv = calls[i].st

\* The C_FindObjectsFinal that lines 100 and 115 issue after a failed
\* C_FindObjects: its status is not looked at.
FinalAfterFailedSearch(i) ==
    /\ calls[i].op = "C_FindObjectsFinal"
    /\ i > 1
    /\ calls[i - 1].op = "C_FindObjects"
    /\ calls[i - 1].st # CKR_OK

\* C11 amended: the orchestrator returns exactly the status of the first
\* module call of the main sequence that failed; the only later call that can
\* fail is the C_FindObjectsFinal issued after a failed C_FindObjects, and its
\* status is discarded.
C11_FirstErrorReturned ==
    OrchReturned =>
        \A i \in Idx :
            ModuleCallFailed(i) =>
                IF FinalAfterFailedSearch(i)
                THEN rv = calls[i - 1].st
                ELSE /\ rv = calls[i].st
                     /\ \A j \in Idx : j < i => ~ModuleCallFailed(j)

\* C11 witness: a run whose valid unwrap failed with CKR_FUNCTION_FAILED and
\* which returned that status.
C11_Witness ==
    /\ OrchReturned
    /\ rv = CKR_FUNCTION_FAILED
    /\ \E i \in CallsAt("C_UnwrapKey", VALID) : calls[i].st = CKR_FUNCTION_FAILED

\* --------------------------------------------------------------- C12
\* C12: from the done label on, rv does not change whatever the two destroy
\* calls return, and the value the orchestrator returns is that rv: a failed
\* destroy neither replaces an error nor turns a success into a failure.
CleanupPcs == {"done", "destroy_public", "destroy_private"}

C12_CleanupKeepsRv ==
    /\ [][(pc \in CleanupPcs) => (rv' = rv)]_vars
    /\ [](\A r \in Returns("aes_wrap_unwrap_with_trusted") : calls[r].st = rv)

\* C12 witness: every step of the main sequence succeeded, both destroy calls
\* failed, and the orchestrator returned CKR_OK.
C12_Witness ==
    /\ OrchReturned
    /\ FailedSteps = {}
    /\ rv = CKR_OK
    /\ \E i \in Destroys("rsa_public_key") : calls[i].st # CKR_OK
    /\ \E i \in Destroys("rsa_private_key") : calls[i].st # CKR_OK

\* --------------------------------------------------------------- C13
\* C13 (find_wrapping_key_with_label called on its own): with a null output
\* pointer the function makes no module call, opens no search, and returns
\* CKR_ARGUMENTS_BAD in its first step.
C13_NullOutputRejected ==
    hObject = NULL =>
        /\ \A i \in Idx : calls[i].op = "return"
        /\ ~searchOpen
        /\ pc \in {"find_init", "find_returned"}
        /\ (pc = "find_returned" => FindReturned /\ FindRv = CKR_ARGUMENTS_BAD)

\* C13 witness: the call with the null pointer has returned
\* CKR_ARGUMENTS_BAD, for a label that one object carries.
C13_Witness ==
    /\ hObject = NULL
    /\ matches = 1
    /\ pc = "find_returned"
    /\ FindRv = CKR_ARGUMENTS_BAD
    /\ Len(calls) = 1

\* --------------------------------------------------------------- C14
\* C14: the attribute query that follows the incomplete unwrap is made on the
\* handle that unwrap produced.
C14_IncompleteHandleQueried ==
    \A i \in CallsAt("C_GetAttributeValue", "extractable_incomplete") :
        calls[i].h = incomplete_unwrapped_handle

\* --------------------------------------------------------------- C15
\* The module calls of the history, in order, each as <<operation, call site>>.
ModuleOps == KeyOps \cup SearchOps \cup {"C_DestroyObject"}
IsModuleCall(c) == c.op \in ModuleOps
ModuleTrace ==
    LET t == SelectSeq(calls, IsModuleCall)
    IN  [i \in 1..Len(t) |-> <<t[i].op, t[i].role>>]

\* The status each module call is expected to return.
ExpectedStatus(c) ==
    IF c.op = "C_UnwrapKey" /\ c.role = INCONSISTENT
    THEN CKR_TEMPLATE_INCONSISTENT
    ELSE CKR_OK
AllExpected ==
    \A i \in Idx : IsModuleCall(calls[i]) => calls[i].st = ExpectedStatus(calls[i])

\* The order of section 4.6; locating the wrapping key is the four search
\* calls.
ExpectedTrace ==
    << <<"C_FindObjectsInit", "init">>, <<"C_FindObjects", "count">>,
       <<"C_FindObjects", "fetch">>, <<"C_FindObjectsFinal", "final">>,
       <<"C_GetAttributeValue", "trusted">>,
       <<"C_GenerateKeyPair", "rsa">>,
       <<"C_WrapKey", "size">>, <<"C_WrapKey", "fill">>,
       <<"C_UnwrapKey", VALID>>, <<"C_GetAttributeValue", "extractable_valid">>,
       <<"C_UnwrapKey", INCONSISTENT>>,
       <<"C_UnwrapKey", INCOMPLETE>>,
       <<"C_GetAttributeValue", "extractable_incomplete">>,
       <<"C_DestroyObject", "rsa_public_key">>,
       <<"C_DestroyObject", "rsa_private_key">> >>

\* C15 as stated: in a run where every module call returned its expected
\* status, the module operations were issued in the order of section 4.6,
\* each once, and the orchestrator returned CKR_OK.
C15_ExpectedStatusesGiveFullRun ==
    (OrchReturned /\ AllExpected) =>
        /\ ModuleTrace = ExpectedTrace
        /\ rv = CKR_OK

\* C15 amended: in a run where every module call returned its expected
\* status and, besides, the lookup stored the handle of a key, the trust flag
\* read true and the allocation succeeded, the module operations were issued
\* in the order of section 4.6, each once, and the orchestrator returned
\* CKR_OK.
C15_HappyPathOrder ==
    (OrchReturned /\ AllExpected /\ FailedSteps = {}) =>
        /\ ModuleTrace = ExpectedTrace
        /\ rv = CKR_OK

\* C15 witness: such a run.
C15_Witness ==
    /\ OrchReturned
    /\ AllExpected
    /\ FailedSteps = {}
    /\ Len(ModuleTrace) = 15

\* --------------------------------------------------------------- C16
\* C16: the size query is made with a null destination and length 0; the
\* fill call comes only after a successful size query and a successful
\* allocation of exactly the queried length, and is given that buffer and
\* that length; every unwrap request is given that same buffer with the
\* length the fill call reported.
C16_TwoPhaseWrap ==
    /\ \A i \in CallsAt("C_WrapKey", "size") :
           /\ calls[i].args.pWrappedKey = NULL
           /\ calls[i].args.len_in = 0
    /\ \A j \in CallsAt("C_WrapKey", "fill") :
           \E i \in CallsAt("C_WrapKey", "size"), m \in CallsOf("malloc") :
               /\ i < m /\ m < j
               /\ calls[i].st = CKR_OK
               /\ calls[m].st # NULL
               /\ calls[m].args.size = calls[i].args.len_out
               /\ calls[j].args.pWrappedKey = calls[m].st
               /\ calls[j].args.len_in = calls[i].args.len_out
    /\ \A u \in CallsOf("C_UnwrapKey") :
           \E j \in CallsAt("C_WrapKey", "fill") :
               /\ j < u
               /\ calls[j].st = CKR_OK
               /\ calls[u].args.pWrappedKey = calls[j].args.pWrappedKey
               /\ calls[u].args.ulWrappedKeyLen = calls[j].args.len_out

\* C16 witness: the three unwrap requests were made after a fill call that
\* reported fewer bytes than the size query had.
C16_Witness ==
    /\ \A t \in {VALID, INCONSISTENT, INCOMPLETE} : CallsAt("C_UnwrapKey", t) # {}
    /\ \E i \in CallsAt("C_WrapKey", "size"), j \in CallsAt("C_WrapKey", "fill") :
           calls[j].args.len_out < calls[i].args.len_out

\* --------------------------------------------------------------- C17
IsExtractable(a) == a.type = "CKA_EXTRACTABLE"
IsNotExtractable(a) == a.type # "CKA_EXTRACTABLE"

\* C17: the template of every unwrap request holds class = private key, key
\* type = RSA and token = false; apart from these it holds only the
\* extractable attribute, true for VALID, false for INCONSISTENT and absent
\* for INCOMPLETE; and the count passed is the template's length.
C17_TemplateVariants ==
    \A u \in CallsOf("C_UnwrapKey") :
        LET t == calls[u].args.pTemplate
        IN  /\ SelectSeq(t, IsNotExtractable) =
                   <<Attr("CKA_CLASS", "CKO_PRIVATE_KEY"), Attr("CKA_KEY_TYPE", "CKK_RSA"),
                     Attr("CKA_TOKEN", false_val)>>
            /\ SelectSeq(t, IsExtractable) =
                   CASE calls[u].role = VALID -> <<Attr("CKA_EXTRACTABLE", true_val)>>
                     [] calls[u].role = INCONSISTENT -> <<Attr("CKA_EXTRACTABLE", false_val)>>
                     [] calls[u].role = INCOMPLETE -> <<>>
            /\ calls[u].args.ulAttributeCount = Len(t)

\* C17 witness: an unwrap request was made with each of the three templates.
C17_Witness ==
    \A t \in {VALID, INCONSISTENT, INCOMPLETE} : CallsAt("C_UnwrapKey", t) # {}

\* --------------------------------------------------------------- C18
\* C18: every destroy request targets a handle that a successful
\* C_GenerateKeyPair of the run returned, and none is issued with
\* CK_INVALID_HANDLE.
C18_DestroysOnlyGenerated ==
    \A d \in CallsOf("C_DestroyObject") :
        /\ calls[d].h # CK_INVALID_HANDLE
        /\ \E g \in CallsOf("C_GenerateKeyPair") :
               /\ g < d
               /\ calls[g].st = CKR_OK
               /\ calls[d].h \in {calls[g].args.public_key, calls[g].args.private_key}

\* --------------------------------------------------------------- C19
\* The handles the module returned from successful unwraps.
UnwrappedHandles ==
    {calls[u].args.phKey : u \in {x \in CallsOf("C_UnwrapKey") : calls[x].st = CKR_OK}}

C20_DeclaredLengthFits ==
    \A i \in CallsOf("C_GetAttributeValue") :
        calls[i].args.ulValueLen <= calls[i].args.dest_size

====
